---- MODULE Spec2Model ----
(***************************************************************************)
(* Model of metal-matrix: the Matrix value type (src/src/matrix.rs), the   *)
(* compute context (src/src/metal_context.rs) and the operation layer      *)
(* (src/src/operations.rs, operations/matrix_ops.rs, operations/           *)
(* vector_ops.rs).  f32 values are modelled by small integers; sequences   *)
(* are 1-based, the code's 0-based offset i is read with At(s, i).         *)
(***************************************************************************)
EXTENDS Integers, Sequences, FiniteSets, TLC

(* ------------------------------ bounds -------------------------------- *)
\* largest row / column count of an operand
MaxDim == 2
\* f32 samples are 0..MaxVal
MaxVal == 1
\* most elements of a Matrix the host program builds step by step
MaxElems == 4

(* ------------------------- program constants -------------------------- *)
\* (n as u64).min(16): width cap of the 2-D threadgroups
TileWidth == 16
\* .min(256): width cap of add / subtract / scalar-multiply / dot threadgroups
ElementwiseCap == 256
\* .min(64): width cap of the vector_add threadgroup
VectorAddCap == 64
\* `as u32` keeps the low 32 bits of a usize: two 16-bit halves of this radix
U16Radix == 65536
\* contents of a fresh new_buffer before any kernel wrote to it
Garbage == 777

Values == 0..MaxVal
Dims == 0..MaxDim
\* values of pipeline.max_total_threads_per_threadgroup() the device may report
ThreadLimits == {1, 3, 64, 1024}

Min(x, y) == IF x <= y THEN x ELSE y
Max(x, y) == IF x >= y THEN x ELSE y
At(s, i) == s[i + 1]
Ramp(len, v) == [i \in 1..len |-> (v + i - 1) % (MaxVal + 1)]
Zeros(len) == [i \in 1..len |-> 0]

(* --------------------------- Matrix (matrix.rs) ----------------------- *)
\* outcome of a call: kind is "Ok", "Err" or "Panic"
Ok(v) == [kind |-> "Ok", value |-> v, err |-> "none"]
Err(e) == [kind |-> "Err", value |-> 0, err |-> e]
Panic(e) == [kind |-> "Panic", value |-> 0, err |-> e]
NoRet == [kind |-> "None", value |-> 0, err |-> "none"]

Matrix_new(rows, cols) == [rows |-> rows, cols |-> cols, data |-> Zeros(rows * cols)]

\* variant of with_data: data longer than rows * cols is cut to fit
Matrix_with_data_Truncates(rows, cols, data) ==
    IF Len(data) < rows * cols
    THEN Err("Data length does not match matrix dimensions")
    ELSE Ok([rows |-> rows, cols |-> cols, data |-> SubSeq(data, 1, rows * cols)])

Matrix_with_data(rows, cols, data) ==
    IF Len(data) # rows * cols
    THEN Err("Data length does not match matrix dimensions")
    ELSE Ok([rows |-> rows, cols |-> cols, data |-> data])

Matrix_vector(data) == [rows |-> Len(data), cols |-> 1, data |-> data]

\* self.data[row * self.cols + col]: the slice index panics when out of range
Matrix_get(self, row, col) ==
    LET idx == row * self.cols + col
    IN IF idx >= Len(self.data)
       THEN Panic("index out of bounds")
       ELSE Ok(At(self.data, idx))

Matrix_set(self, row, col, value) ==
    LET idx == row * self.cols + col
    IN IF idx >= Len(self.data)
       THEN Panic("index out of bounds")
       ELSE Ok([self EXCEPT !.data = [self.data EXCEPT ![idx + 1] = value]])

\* for i in 0..n { matrix.set(i, i, 1.0) }
RECURSIVE IdentityLoop(_, _, _)
IdentityLoop(matrix, i, n) ==
    IF i >= n THEN Ok(matrix)
    ELSE LET r == Matrix_set(matrix, i, i, 1)
         IN IF r.kind = "Panic" THEN r ELSE IdentityLoop(r.value, i + 1, n)

Matrix_identity(n) == IdentityLoop(Matrix_new(n, n), 0, n)

\* for col in 0..self.cols { data.push(self.get(row, col)) }
RECURSIVE RowLoop(_, _, _, _)
RowLoop(self, row, col, data) ==
    IF col >= self.cols THEN Ok(data)
    ELSE LET g == Matrix_get(self, row, col)
         IN IF g.kind = "Panic" THEN g
            ELSE RowLoop(self, row, col + 1, Append(data, g.value))

\* variant of row: the returned matrix keeps the row count of self
Matrix_row_KeepsRows(self, row) ==
    LET d == RowLoop(self, row, 0, <<>>)
    IN IF d.kind = "Panic" THEN d
       ELSE Ok([rows |-> self.rows, cols |-> self.cols, data |-> d.value])

Matrix_row(self, row) ==
    LET d == RowLoop(self, row, 0, <<>>)
    IN IF d.kind = "Panic" THEN d
       ELSE Ok([rows |-> 1, cols |-> self.cols, data |-> d.value])

\* for row in 0..self.rows { data.push(self.get(row, col)) }
RECURSIVE ColumnLoop(_, _, _, _)
ColumnLoop(self, row, col, data) ==
    IF row >= self.rows THEN Ok(data)
    ELSE LET g == Matrix_get(self, row, col)
         IN IF g.kind = "Panic" THEN g
            ELSE ColumnLoop(self, row + 1, col, Append(data, g.value))

Matrix_column(self, col) ==
    LET d == ColumnLoop(self, 0, col, <<>>)
    IN IF d.kind = "Panic" THEN d
       ELSE Ok([rows |-> self.rows, cols |-> 1, data |-> d.value])

Vector_with_data(data) == [data |-> data]
Vector_size(self) == Len(self.data)

RECURSIVE DotCpuLoop(_, _, _, _)
\* for i in 0..self.size() { result += self.get(i) * other.get(i); }
DotCpuLoop(self, other, i, result) ==
    IF i >= Vector_size(self) THEN result
    ELSE DotCpuLoop(self, other, i + 1, result + At(self.data, i) * At(other.data, i))

Vector_dot_cpu(self, other) ==
    IF Vector_size(self) # Vector_size(other)
    THEN Err("Vector dimensions must match for dot product")
    ELSE Ok(DotCpuLoop(self, other, 0, 0))

(* ------------------ operation layer: per-operation data ---------------- *)
MatrixOps == {"matrix_multiply", "matrix_add", "matrix_subtract",
              "matrix_transpose", "matrix_scalar_multiply"}
VectorOps == {"vector_dot_product", "vector_add"}
BinaryMatrixOps == {"matrix_multiply", "matrix_add", "matrix_subtract"}
UnaryMatrixOps == {"matrix_transpose", "matrix_scalar_multiply"}
Ops == MatrixOps \cup VectorOps

\* x as u32, i.e. x mod 2^32, computed on the two 16-bit halves
U32(x) == (x % U16Radix) + U16Radix * ((x \div U16Radix) % U16Radix)

\* variant of the validation: vector_add does not compare the lengths
ValidationFails_NoVectorAddCheck(o, x, y) ==
    CASE o = "matrix_multiply" -> x.cols # y.rows
      [] o \in {"matrix_add", "matrix_subtract"} -> x.rows # y.rows \/ x.cols # y.cols
      [] o \in UnaryMatrixOps -> FALSE
      [] o = "vector_dot_product" -> Vector_size(x) # Vector_size(y)
      [] o = "vector_add" -> FALSE

\* variant of the validation: multiply compares the two column counts
ValidationFails_MultiplyCols(o, x, y) ==
    CASE o = "matrix_multiply" -> x.cols # y.cols
      [] o \in {"matrix_add", "matrix_subtract"} -> x.rows # y.rows \/ x.cols # y.cols
      [] o \in UnaryMatrixOps -> FALSE
      [] o = "vector_dot_product" -> Vector_size(x) # Vector_size(y)
      [] o = "vector_add" -> Len(x.data) # Len(y.data)

\* variant of the validation: add and subtract compare the element counts
ValidationFails_ByCount(o, x, y) ==
    CASE o = "matrix_multiply" -> x.cols # y.rows
      [] o \in {"matrix_add", "matrix_subtract"} -> x.rows * x.cols # y.rows * y.cols
      [] o \in UnaryMatrixOps -> FALSE
      [] o = "vector_dot_product" -> Vector_size(x) # Vector_size(y)
      [] o = "vector_add" -> Len(x.data) # Len(y.data)

\* variant of the validation: the dot product rejects only a shorter a
ValidationFails_DotShorterOnly(o, x, y) ==
    CASE o = "matrix_multiply" -> x.cols # y.rows
      [] o \in {"matrix_add", "matrix_subtract"} -> x.rows # y.rows \/ x.cols # y.cols
      [] o \in UnaryMatrixOps -> FALSE
      [] o = "vector_dot_product" -> Vector_size(x) < Vector_size(y)
      [] o = "vector_add" -> Len(x.data) # Len(y.data)

\* the `// Validate input` test at the head of each operation
ValidationFails(o, x, y) ==
    CASE o = "matrix_multiply" -> x.cols # y.rows
      [] o \in {"matrix_add", "matrix_subtract"} -> x.rows # y.rows \/ x.cols # y.cols
      [] o \in UnaryMatrixOps -> FALSE
      [] o = "vector_dot_product" -> Vector_size(x) # Vector_size(y)
      [] o = "vector_add" -> Len(x.data) # Len(y.data)

ValidationError(o) ==
    CASE o = "matrix_multiply" -> "Matrix dimensions incompatible for multiplication"
      [] o = "matrix_add" -> "Matrix dimensions must match for addition"
      [] o = "matrix_subtract" -> "Matrix dimensions must match for subtraction"
      [] o = "vector_dot_product" -> "Vector dimensions must match for dot product"
      [] o = "vector_add" -> "Vector dimensions must match for addition"
      [] OTHER -> "none"

\* element count of buffer_result and of the host copy result_data
ResultCount(o, x, y) ==
    CASE o = "matrix_multiply" -> x.rows * y.cols
      [] o \in {"matrix_add", "matrix_subtract"} -> x.rows * x.cols
      [] o \in UnaryMatrixOps -> x.rows * x.cols
      [] o = "vector_dot_product" -> 1
      [] o = "vector_add" -> Len(x.data)

\* variant of the result shape: multiply hands (n, m) to Matrix::with_data
ResultShape_Swapped(o, x, y) ==
    CASE o = "matrix_multiply" -> <<y.cols, x.rows>>
      [] o = "matrix_transpose" -> <<x.cols, x.rows>>
      [] OTHER -> <<x.rows, x.cols>>

\* the (rows, cols) handed to Matrix::with_data when the operation returns
ResultShape(o, x, y) ==
    CASE o = "matrix_multiply" -> <<x.rows, y.cols>>
      [] o = "matrix_transpose" -> <<x.cols, x.rows>>
      [] OTHER -> <<x.rows, x.cols>>

\* variant of the buffers: the scalar's buffer is allocated but never filled
BufferPlan_ScalarNotCopied(o, x, y, s, fill) ==
    LET res == <<"buffer_result", "new_buffer", [i \in 1..ResultCount(o, x, y) |-> fill]>>
        wd(n, d) == <<n, "new_buffer_with_data", d>>
    IN CASE o = "matrix_multiply" ->
              << wd("buffer_a", x.data), wd("buffer_b", y.data), res,
                 wd("buffer_m", <<U32(x.rows)>>), wd("buffer_n", <<U32(y.cols)>>),
                 wd("buffer_k", <<U32(x.cols)>>) >>
         [] o \in {"matrix_add", "matrix_subtract", "vector_add"} ->
              << wd("buffer_a", x.data), wd("buffer_b", y.data), res >>
         [] o = "matrix_transpose" ->
              << wd("buffer_a", x.data), res,
                 wd("buffer_rows", <<U32(x.rows)>>), wd("buffer_cols", <<U32(x.cols)>>) >>
         [] o = "matrix_scalar_multiply" ->
              << wd("buffer_a", x.data), <<"buffer_scalar", "new_buffer", <<fill>>>>, res >>
         [] o = "vector_dot_product" ->
              << wd("buffer_a", x.data), wd("buffer_b", y.data), res,
                 wd("buffer_size", <<U32(Vector_size(x))>>) >>

\* buffers created after the kernel loaded, in creation order:
\* <<local name, constructor, initial contents>>
BufferPlan(o, x, y, s, fill) ==
    LET res == <<"buffer_result", "new_buffer", [i \in 1..ResultCount(o, x, y) |-> fill]>>
        wd(n, d) == <<n, "new_buffer_with_data", d>>
    IN CASE o = "matrix_multiply" ->
              << wd("buffer_a", x.data), wd("buffer_b", y.data), res,
                 wd("buffer_m", <<U32(x.rows)>>), wd("buffer_n", <<U32(y.cols)>>),
                 wd("buffer_k", <<U32(x.cols)>>) >>
         [] o \in {"matrix_add", "matrix_subtract", "vector_add"} ->
              << wd("buffer_a", x.data), wd("buffer_b", y.data), res >>
         [] o = "matrix_transpose" ->
              << wd("buffer_a", x.data), res,
                 wd("buffer_rows", <<U32(x.rows)>>), wd("buffer_cols", <<U32(x.cols)>>) >>
         [] o = "matrix_scalar_multiply" ->
              << wd("buffer_a", x.data), wd("buffer_scalar", <<s>>), res >>
         [] o = "vector_dot_product" ->
              << wd("buffer_a", x.data), wd("buffer_b", y.data), res,
                 wd("buffer_size", <<U32(Vector_size(x))>>) >>

\* variant of the bindings: matrix_subtract binds b to slot 0 and a to slot 1
Bindings_SubtractSwapped(o) ==
    CASE o = "matrix_multiply" ->
              <<"buffer_a", "buffer_b", "buffer_result", "buffer_m", "buffer_n", "buffer_k">>
      [] o = "matrix_subtract" -> <<"buffer_b", "buffer_a", "buffer_result">>
      [] o \in {"matrix_add", "vector_add"} ->
              <<"buffer_a", "buffer_b", "buffer_result">>
      [] o = "matrix_transpose" ->
              <<"buffer_a", "buffer_result", "buffer_rows", "buffer_cols">>
      [] o = "matrix_scalar_multiply" ->
              <<"buffer_a", "buffer_scalar", "buffer_result">>
      [] o = "vector_dot_product" ->
              <<"buffer_a", "buffer_b", "buffer_result", "buffer_size">>

\* variant of the bindings: matrix_transpose binds cols to slot 2 and rows to slot 3
Bindings_TransposeParamsSwapped(o) ==
    CASE o = "matrix_multiply" ->
              <<"buffer_a", "buffer_b", "buffer_result", "buffer_m", "buffer_n", "buffer_k">>
      [] o \in {"matrix_add", "matrix_subtract", "vector_add"} ->
              <<"buffer_a", "buffer_b", "buffer_result">>
      [] o = "matrix_transpose" ->
              <<"buffer_a", "buffer_result", "buffer_cols", "buffer_rows">>
      [] o = "matrix_scalar_multiply" ->
              <<"buffer_a", "buffer_scalar", "buffer_result">>
      [] o = "vector_dot_product" ->
              <<"buffer_a", "buffer_b", "buffer_result", "buffer_size">>

\* encoder.set_buffer(slot, ...) calls of the setup closure, slot i at position i+1
Bindings(o) ==
    CASE o = "matrix_multiply" ->
              <<"buffer_a", "buffer_b", "buffer_result", "buffer_m", "buffer_n", "buffer_k">>
      [] o \in {"matrix_add", "matrix_subtract", "vector_add"} ->
              <<"buffer_a", "buffer_b", "buffer_result">>
      [] o = "matrix_transpose" ->
              <<"buffer_a", "buffer_result", "buffer_rows", "buffer_cols">>
      [] o = "matrix_scalar_multiply" ->
              <<"buffer_a", "buffer_scalar", "buffer_result">>
      [] o = "vector_dot_product" ->
              <<"buffer_a", "buffer_b", "buffer_result", "buffer_size">>

\* variant of the grid: multiply dispatches m x n threads instead of n x m
GridSize_MultiplySwapped(o, x, y) ==
    CASE o = "matrix_multiply" -> <<x.rows, y.cols, 1>>
      [] o = "matrix_transpose" -> <<x.cols, x.rows, 1>>
      [] o \in {"matrix_add", "matrix_subtract", "matrix_scalar_multiply"} ->
              <<x.rows * x.cols, 1, 1>>
      [] o = "vector_add" -> <<Len(x.data), 1, 1>>
      [] o = "vector_dot_product" -> <<1, 1, 1>>

\* variant of the grid: the element-wise operations dispatch one thread per row
GridSize_ElementwiseByRows(o, x, y) ==
    CASE o = "matrix_multiply" -> <<y.cols, x.rows, 1>>
      [] o = "matrix_transpose" -> <<x.cols, x.rows, 1>>
      [] o \in {"matrix_add", "matrix_subtract", "matrix_scalar_multiply"} ->
              <<x.rows, 1, 1>>
      [] o = "vector_add" -> <<Len(x.data), 1, 1>>
      [] o = "vector_dot_product" -> <<1, 1, 1>>

\* MTLSize::new(...) of grid_size
GridSize(o, x, y) ==
    CASE o = "matrix_multiply" -> <<y.cols, x.rows, 1>>
      [] o = "matrix_transpose" -> <<x.cols, x.rows, 1>>
      [] o \in {"matrix_add", "matrix_subtract", "matrix_scalar_multiply"} ->
              <<x.rows * x.cols, 1, 1>>
      [] o = "vector_add" -> <<Len(x.data), 1, 1>>
      [] o = "vector_dot_product" -> <<1, 1, 1>>

\* variant of the sizing: the height is not capped by the number of rows
Threadgroup2D_HeightUncapped(cols, rows, max_threads) ==
    LET width == Min(cols, TileWidth)
    IN IF width = 0
       THEN Panic("attempt to divide by zero")
       ELSE Ok(<<width, Max(max_threads \div width, 1), 1>>)

\* width = cols.min(16); height = (max_threads / width).min(rows).max(1):
\* the integer division panics when width is 0
Threadgroup2D(cols, rows, max_threads) ==
    LET width == Min(cols, TileWidth)
    IN IF width = 0
       THEN Panic("attempt to divide by zero")
       ELSE Ok(<<width, Max(Min(max_threads \div width, rows), 1), 1>>)

\* variant of the sizing: the 1-D width is also capped by the element count
ThreadgroupSize_CappedByCount(o, x, y, max_threads) ==
    CASE o = "matrix_multiply" -> Threadgroup2D(y.cols, x.rows, max_threads)
      [] o = "matrix_transpose" -> Threadgroup2D(x.cols, x.rows, max_threads)
      [] o \in {"matrix_add", "matrix_subtract", "matrix_scalar_multiply"} ->
              Ok(<<Max(1, Min(Min(max_threads, ElementwiseCap), x.rows * x.cols)), 1, 1>>)
      [] o = "vector_dot_product" -> Ok(<<Min(max_threads, ElementwiseCap), 1, 1>>)
      [] o = "vector_add" -> Ok(<<Min(max_threads, VectorAddCap), 1, 1>>)

\* MTLSize::new(...) of threadgroup_size
ThreadgroupSize(o, x, y, max_threads) ==
    CASE o = "matrix_multiply" -> Threadgroup2D(y.cols, x.rows, max_threads)
      [] o = "matrix_transpose" -> Threadgroup2D(x.cols, x.rows, max_threads)
      [] o \in {"matrix_add", "matrix_subtract", "matrix_scalar_multiply", "vector_dot_product"} ->
              Ok(<<Min(max_threads, ElementwiseCap), 1, 1>>)
      [] o = "vector_add" -> Ok(<<Min(max_threads, VectorAddCap), 1, 1>>)

\* the `// Read results` copy followed by the value returned with Ok(...)
Finish(o, x, y, result_data) ==
    CASE o \in MatrixOps ->
              Matrix_with_data(ResultShape(o, x, y)[1], ResultShape(o, x, y)[2], result_data)
      [] o = "vector_dot_product" -> Ok(At(result_data, 0))
      [] o = "vector_add" -> Ok(result_data)

(* --------------- compute kernels (the .metal sources) ------------------ *)
\* a device read of element i of a bound buffer
Read(buf, i) == IF i < Len(buf) THEN At(buf, i) ELSE Garbage

RECURSIVE DotSum(_, _, _, _, _, _)
\* sum over t in from..k-1 of x[xoff + t*xstride] * y[yoff + t*ystride]
DotSum(x, y, k, t, xi, yi) ==
    IF t >= k THEN 0
    ELSE Read(x, xi[1] + t * xi[2]) * Read(y, yi[1] + t * yi[2])
         + DotSum(x, y, k, t + 1, xi, yi)

\* contents of the result buffer after one dispatch of `kernel` over `grid`,
\* slots = the contents of the bound buffers by slot, old = the result buffer
\* before the dispatch; an element no thread of the grid writes keeps old
KernelOutput(kernel, slots, grid, old) ==
    CASE kernel = "matrix_multiply" ->
              LET n == At(slots[5], 0)
                  k == At(slots[6], 0)
              IN [i \in 1..Len(old) |->
                    LET row == (i - 1) \div n
                        col == (i - 1) % n
                    IN IF col < grid[1] /\ row < grid[2] /\ row < At(slots[4], 0)
                       THEN DotSum(slots[1], slots[2], k, 0, <<row * k, 1>>, <<col, n>>)
                       ELSE old[i]]
      [] kernel = "matrix_transpose" ->
              LET rows == At(slots[3], 0)
                  cols == At(slots[4], 0)
              IN [i \in 1..Len(old) |->
                    LET col == (i - 1) \div rows
                        row == (i - 1) % rows
                    IN IF col < grid[1] /\ row < grid[2] /\ col < cols
                       THEN Read(slots[1], row * cols + col)
                       ELSE old[i]]
      [] kernel \in {"matrix_add", "vector_add"} ->
              [i \in 1..Len(old) |->
                    IF i - 1 < grid[1] THEN Read(slots[1], i - 1) + Read(slots[2], i - 1)
                    ELSE old[i]]
      [] kernel = "matrix_subtract" ->
              [i \in 1..Len(old) |->
                    IF i - 1 < grid[1] THEN Read(slots[1], i - 1) - Read(slots[2], i - 1)
                    ELSE old[i]]
      [] kernel = "matrix_scalar_multiply" ->
              [i \in 1..Len(old) |->
                    IF i - 1 < grid[1] THEN Read(slots[1], i - 1) * At(slots[2], 0)
                    ELSE old[i]]
      [] kernel = "vector_dot_product" ->
              [i \in 1..Len(old) |->
                    IF i = 1 /\ grid[1] >= 1
                    THEN DotSum(slots[1], slots[2], At(slots[4], 0), 0, <<0, 1>>, <<0, 1>>)
                    ELSE old[i]]

\* the element of the result buffer the thread at grid cell <<x, y>> writes
\* (0-based): multiply row * n + col with col = x and row = y, transpose
\* col * rows + row, the element-wise kernels x
CellIndex(kernel, slots, cell) ==
    CASE kernel = "matrix_multiply" -> cell[2] * At(slots[5], 0) + cell[1]
      [] kernel = "matrix_transpose" -> cell[1] * At(slots[3], 0) + cell[2]
      [] OTHER -> cell[1]

\* what one dispatch may leave in the result buffer: the kernel's output; the
\* dot product's reduction runs in one threadgroup whose working set is the
\* threadgroup's width, and for a longer vector only that many products are
\* sure to be accumulated
KernelOutputs(kernel, slots, grid, threadgroup, old) ==
    IF kernel = "vector_dot_product" /\ At(slots[4], 0) > threadgroup[1] /\ grid[1] >= 1
    THEN { KernelOutput(kernel, slots, grid, old),
           [i \in 1..Len(old) |->
               IF i = 1
               THEN DotSum(slots[1], slots[2], threadgroup[1], 0, <<0, 1>>, <<0, 1>>)
               ELSE old[i]] }
    ELSE { KernelOutput(kernel, slots, grid, old) }

(* ------------------------------- state --------------------------------- *)
VARIABLES
    pc,        \* position of the running operation call
    op,        \* the operation called
    a, b,      \* its operands (borrowed from the caller)
    scalar,    \* the scalar argument of matrix_scalar_multiply
    loadlog,   \* steps load_kernel ran in this call: <<step, succeeded>>
    pipeline,  \* the ComputePipelineState load_kernel returned
    buffers,   \* device buffers alive in this call: local name -> contents
    cmd,       \* the command buffer of this call
    trace,     \* device interactions of this call, in order
    ret,       \* what the call returned
    mat,       \* a Matrix owned by the host program
    mret,      \* outcome of the last Matrix method called on it
    prev,      \* the call whose result is an operand of the running call
    heap,      \* which allocation each Vec or device buffer of the call owns
    calls,     \* two host threads sharing one MetalContext: each one's call
    device,    \* the device and command queue of that shared context
    wide       \* a call on operands whose dimensions use the full usize range

opvars == <<pc, op, a, b, scalar, loadlog, pipeline, buffers, cmd, trace, ret, prev, heap,
            calls, device, wide>>
matvars == <<mat, mret>>
vars == <<pc, op, a, b, scalar, loadlog, pipeline, buffers, cmd, trace, ret, mat, mret, prev, heap,
          calls, device, wide>>

NoBuffers == [n \in {} |-> <<>>]
NoPipeline == [built |-> FALSE, kernel |-> "none", max_threads |-> 0]
NoCmd == [status |-> "none", bindings |-> <<>>, dispatches |-> <<>>]
NoMethod == [method |-> "none", kind |-> "None"]
NoHeap == [at |-> [n \in {} |-> 0], freed |-> {}]
NoPrev == [op |-> "none", a |-> Matrix_new(0, 0), b |-> Matrix_new(0, 0), status |-> "none"]

\* a usize on a 64-bit target, as its high and low 32-bit words: the value is
\* hi * 2^32 + lo
Usize(hi, lo) == [hi |-> hi, lo |-> lo]
\* no call on wide operands is running
NoWide ==
    [pc |-> "idle", op |-> "none", rows |-> Usize(0, 0), cols |-> Usize(0, 0),
     other |-> Usize(0, 0), params |-> <<>>, grid |-> <<>>]

\* the host threads that call operations on the shared context
Threads == {1, 2}
\* a thread that is not in a call
NoCall ==
    [pc |-> "idle", op |-> "none", a |-> Matrix_new(0, 0), b |-> Matrix_new(0, 0),
     scalar |-> 0, max_threads |-> 0, fill |-> 0, bufs |-> [n \in {} |-> 0], cb |-> 0,
     ret |-> NoRet]
\* a device with no live buffer and an empty command queue: mem is the
\* contents of each live allocation, owner the thread that created it, queue
\* the command buffers created on the queue, touched the <<thread, allocation>>
\* pairs of every access made by or on behalf of a thread's call
NoDevice ==
    [mem |-> [i \in {} |-> <<>>], owner |-> [i \in {} |-> 0], next |-> 1,
     queue |-> <<>>, touched |-> {}]

Init ==
    /\ pc = "idle"
    /\ op = "none"
    /\ a = Matrix_new(0, 0)
    /\ b = Matrix_new(0, 0)
    /\ scalar = 0
    /\ loadlog = <<>>
    /\ pipeline = NoPipeline
    /\ buffers = NoBuffers
    /\ cmd = NoCmd
    /\ trace = <<>>
    /\ ret = NoRet
    /\ mat = Matrix_new(0, 0)
    /\ mret = NoMethod
    /\ prev = NoPrev
    /\ heap = NoHeap
    /\ calls = [t \in Threads |-> NoCall]
    /\ device = NoDevice
    /\ wide = NoWide

\* operands a caller can build with the constructors
MatrixOperands ==
    {Matrix_with_data(r, c, Ramp(r * c, v)).value : r \in Dims, c \in Dims, v \in Values}
VectorOperands ==
    {Vector_with_data(Ramp(n, v)) : n \in Dims, v \in Values}

(* ------------------------ operation call: entry ------------------------ *)
\* the caller invokes operation o on operands it owns; every call starts with
\* no pipeline, no buffer and no command buffer of its own
Enter(o, x, y, s) ==
    /\ pc' = "validate"
    /\ op' = o
    /\ a' = x
    /\ b' = y
    /\ scalar' = s
    /\ loadlog' = <<>>
    /\ pipeline' = NoPipeline
    /\ buffers' = NoBuffers
    /\ cmd' = NoCmd
    /\ trace' = <<>>
    /\ ret' = NoRet
    /\ heap' = [at |-> ("a.data" :> 1 @@ "b.data" :> 2), freed |-> {}]

CallBinary ==
    /\ pc = "idle"
    /\ \E o \in BinaryMatrixOps, x \in MatrixOperands, y \in MatrixOperands : Enter(o, x, y, 0)
    /\ UNCHANGED <<mat, mret, calls, device, wide, prev>>

CallTranspose ==
    /\ pc = "idle"
    /\ \E x \in MatrixOperands : Enter("matrix_transpose", x, Matrix_new(0, 0), 0)
    /\ UNCHANGED <<mat, mret, calls, device, wide, prev>>

CallScalarMultiply ==
    /\ pc = "idle"
    /\ \E x \in MatrixOperands, s \in Values :
          Enter("matrix_scalar_multiply", x, Matrix_new(0, 0), s)
    /\ UNCHANGED <<mat, mret, calls, device, wide, prev>>

CallVector ==
    /\ pc = "idle"
    /\ \E o \in VectorOps, x \in VectorOperands, y \in VectorOperands : Enter(o, x, y, 0)
    /\ UNCHANGED <<mat, mret, calls, device, wide, prev>>

\* matrix_multiply(&context, &a, &Matrix::identity(a.cols))
CallMultiplyIdentity ==
    /\ pc = "idle"
    /\ \E x \in MatrixOperands :
          Enter("matrix_multiply", x, Matrix_identity(x.cols).value, 0)
    /\ UNCHANGED <<mat, mret, calls, device, wide, prev>>

\* the operands of the example in matrix_multiply's documentation
ExampleA == Matrix_with_data(2, 3, <<1, 2, 3, 4, 5, 6>>).value
ExampleB == Matrix_with_data(3, 2, <<7, 8, 9, 10, 11, 12>>).value

\* let result = matrix_multiply(&context, &a, &b).unwrap() of that example
CallMultiplyExample ==
    /\ pc = "idle"
    /\ Enter("matrix_multiply", ExampleA, ExampleB, 0)
    /\ UNCHANGED <<mat, mret, calls, device, wide, prev>>

\* the operation that undoes o in a round trip
InverseOf(o) == IF o = "matrix_add" THEN "matrix_subtract" ELSE "matrix_transpose"

\* the caller passes the matrix a call returned to a second call:
\* matrix_subtract(&context, &matrix_add(&context, &a, &b)?, &b) and
\* matrix_transpose(&context, &matrix_transpose(&context, &a)?)
CallOnResult ==
    /\ pc = "returned"
    /\ prev = NoPrev
    /\ ret.kind = "Ok"
    /\ op \in {"matrix_add", "matrix_transpose"}
    /\ prev' = [op |-> op, a |-> a, b |-> b, status |-> cmd.status]
    /\ Enter(InverseOf(op), ret.value, b, 0)
    /\ UNCHANGED <<mat, mret, calls, device, wide>>

\* the caller has consumed (or dropped) what the call returned; nothing of the
\* call is retained and the context is ready for the next call
Release ==
    /\ pc = "returned"
    /\ pc' = "idle"
    /\ op' = "none"
    /\ a' = Matrix_new(0, 0)
    /\ b' = Matrix_new(0, 0)
    /\ scalar' = 0
    /\ loadlog' = <<>>
    /\ pipeline' = NoPipeline
    /\ buffers' = NoBuffers
    /\ cmd' = NoCmd
    /\ trace' = <<>>
    /\ ret' = NoRet
    /\ prev' = NoPrev
    /\ heap' = NoHeap
    /\ UNCHANGED <<mat, mret, calls, device, wide>>

\* if <shapes incompatible> { anyhow::bail!(...) }
Validate ==
    /\ pc = "validate"
    /\ IF ValidationFails(op, a, b)
       THEN /\ ret' = Err(ValidationError(op))
            /\ pc' = "returned"
       ELSE /\ ret' = ret
            /\ pc' = "load_read"
    /\ UNCHANGED <<op, a, b, scalar, loadlog, pipeline, buffers, cmd, trace, mat, mret, calls, device, wide, prev, heap>>

(* ------------------- MetalContext::load_kernel ------------------------- *)
LoadSteps == <<"read_to_string", "new_library_with_source", "get_function",
               "new_compute_pipeline_state_with_function">>

LoadError(step) ==
    CASE step = "read_to_string" -> "Failed to read kernel file"
      [] step = "new_library_with_source" -> "Failed to create library from source"
      [] step = "get_function" -> "Failed to get function"
      [] step = "new_compute_pipeline_state_with_function" -> "Failed to create compute pipeline"

\* variant of a load step: a failure is logged but the next step still runs
LoadStep_IgnoresFailure(step, here, next, ok) ==
    /\ pc = here
    /\ loadlog' = Append(loadlog, <<step, ok>>)
    /\ pc' = next
    /\ ret' = ret

\* one fallible step of load_kernel followed by `?`: on failure the error goes
\* to the caller of load_kernel, whose own `?` returns it from the operation
LoadStep(step, here, next, ok) ==
    /\ pc = here
    /\ loadlog' = Append(loadlog, <<step, ok>>)
    /\ IF ok
       THEN /\ pc' = next
            /\ ret' = ret
       ELSE /\ pc' = "returned"
            /\ ret' = Err(LoadError(step))

\* fs::read_to_string(file_path).context(...)?
LoadRead ==
    /\ \E ok \in BOOLEAN : LoadStep("read_to_string", "load_read", "load_compile", ok)
    /\ trace' = Append(trace, "load_kernel")
    /\ UNCHANGED <<op, a, b, scalar, pipeline, buffers, cmd, mat, mret, calls, device, wide, prev, heap>>

\* device.new_library_with_source(...).map_err(...)?
LoadCompile ==
    /\ \E ok \in BOOLEAN :
          LoadStep("new_library_with_source", "load_compile", "load_get_function", ok)
    /\ UNCHANGED <<op, a, b, scalar, pipeline, buffers, cmd, trace, mat, mret, calls, device, wide, prev, heap>>

\* library.get_function(function_name, None).map_err(...)?
LoadGetFunction ==
    /\ \E ok \in BOOLEAN :
          LoadStep("get_function", "load_get_function", "load_pipeline", ok)
    /\ UNCHANGED <<op, a, b, scalar, pipeline, buffers, cmd, trace, mat, mret, calls, device, wide, prev, heap>>

\* device.new_compute_pipeline_state_with_function(&kernel).map_err(...)?; Ok(pipeline)
LoadPipeline ==
    /\ \E ok \in BOOLEAN, mt \in ThreadLimits :
          /\ LoadStep("new_compute_pipeline_state_with_function", "load_pipeline", "alloc", ok)
          /\ pipeline' = IF ok THEN [built |-> TRUE, kernel |-> op, max_threads |-> mt]
                         ELSE pipeline
    /\ UNCHANGED <<op, a, b, scalar, buffers, cmd, trace, mat, mret, calls, device, wide, prev, heap>>

(* ------------- new_buffer_with_data / new_buffer ----------------------- *)
\* allocations are numbered in creation order
UsedIds(h) == {h.at[n] : n \in DOMAIN h.at} \cup h.freed
FreshId(h) == 1 + Cardinality(UsedIds(h))
\* the buffers the call created, and what dropping them leaves of the heap
BufferNames(h) == {n \in DOMAIN h.at : n \notin {"a.data", "b.data", "ret.data"}}
DropBuffers(h) ==
    [at |-> [n \in DOMAIN h.at \ BufferNames(h) |-> h.at[n]],
     freed |-> h.freed \cup {h.at[n] : n \in BufferNames(h)}]

\* variant of the allocation: new_buffer hands out one result buffer the
\* context keeps and reuses for every call
BufferAllocation_Pooled(constructor, fresh) ==
    IF constructor = "new_buffer" THEN 0 ELSE fresh

\* device.new_buffer_with_data(ptr, len, StorageModeShared) and
\* device.new_buffer(len, StorageModeShared) both allocate the buffer's own
\* storage (the former then copies len bytes into it)
BufferAllocation(constructor, fresh) == fresh

\* the `// Create buffers` block of an operation: every buffer of the plan is
\* created, a new_buffer_with_data one as a copy of the host data
CreateBuffers ==
    /\ pc = "alloc"
    /\ \E fill \in {0, Garbage} :
          LET plan == BufferPlan(op, a, b, scalar, fill)
              names == {plan[i][1] : i \in 1..Len(plan)}
          IN /\ buffers' = [n \in names |->
                              LET i == CHOOSE j \in 1..Len(plan) : plan[j][1] = n
                              IN plan[i][3]]
             /\ trace' = trace \o [i \in 1..Len(plan) |-> plan[i][2]]
             /\ heap' = [heap EXCEPT !.at = @ @@ [n \in names |->
                              LET i == CHOOSE j \in 1..Len(plan) : plan[j][1] = n
                              IN BufferAllocation(plan[i][2], FreshId(heap) + i - 1)]]
    /\ pc' = "new_command_buffer"
    /\ UNCHANGED <<op, a, b, scalar, loadlog, pipeline, cmd, ret, mat, mret, calls, device, wide, prev>>

(* ------------------- MetalContext::execute_compute --------------------- *)
\* let command_buffer = self.command_queue.new_command_buffer();
NewCommandBuffer ==
    /\ pc = "new_command_buffer"
    /\ cmd' = [status |-> "created", bindings |-> <<>>, dispatches |-> <<>>]
    /\ trace' = Append(trace, "new_command_buffer")
    /\ pc' = "new_encoder"
    /\ UNCHANGED <<op, a, b, scalar, loadlog, pipeline, buffers, ret, mat, mret, calls, device, wide, prev, heap>>

\* let encoder = command_buffer.new_compute_command_encoder();
NewEncoder ==
    /\ pc = "new_encoder"
    /\ cmd' = [cmd EXCEPT !.status = "encoding"]
    /\ trace' = Append(trace, "new_compute_command_encoder")
    /\ pc' = "setup"
    /\ UNCHANGED <<op, a, b, scalar, loadlog, pipeline, buffers, ret, mat, mret, calls, device, wide, prev, heap>>

\* encoder_setup(encoder): the closure of the operation binds the buffers,
\* computes grid and threadgroup size and dispatches once; a panic in the
\* threadgroup computation unwinds the call after the bindings were made
EncoderSetup ==
    /\ pc = "setup"
    /\ trace' = Append(trace, "encoder_setup")
    /\ LET tg == ThreadgroupSize(op, a, b, pipeline.max_threads)
       IN IF tg.kind = "Panic"
          THEN /\ cmd' = [cmd EXCEPT !.bindings = Bindings(op)]
               /\ ret' = tg
               /\ buffers' = NoBuffers
               /\ heap' = DropBuffers(heap)
               /\ pc' = "panicked"
          ELSE /\ cmd' = [cmd EXCEPT !.bindings = Bindings(op),
                                     !.dispatches = Append(@,
                                         [grid |-> GridSize(op, a, b),
                                          threadgroup |-> tg.value,
                                          bound |-> Bindings(op)])]
               /\ ret' = ret
               /\ buffers' = buffers
               /\ heap' = heap
               /\ pc' = "end_encoding"
    /\ UNCHANGED <<op, a, b, scalar, loadlog, pipeline, mat, mret, calls, device, wide, prev>>

\* encoder.end_encoding();
EndEncoding ==
    /\ pc = "end_encoding"
    /\ cmd' = [cmd EXCEPT !.status = "encoded"]
    /\ trace' = Append(trace, "end_encoding")
    /\ pc' = "commit"
    /\ UNCHANGED <<op, a, b, scalar, loadlog, pipeline, buffers, ret, mat, mret, calls, device, wide, prev, heap>>

\* command_buffer.commit();
Commit ==
    /\ pc = "commit"
    /\ cmd' = [cmd EXCEPT !.status = "committed"]
    /\ trace' = Append(trace, "commit")
    /\ pc' = "wait"
    /\ UNCHANGED <<op, a, b, scalar, loadlog, pipeline, buffers, ret, mat, mret, calls, device, wide, prev, heap>>

\* what the dispatch of the committed command buffer may leave in buffer_result
DispatchOutputs ==
    IF cmd.dispatches = <<>> THEN {buffers["buffer_result"]}
    ELSE LET d == cmd.dispatches[1]
         IN KernelOutputs(pipeline.kernel,
                          [i \in 1..Len(d.bound) |-> buffers[d.bound[i]]],
                          d.grid, d.threadgroup, buffers["buffer_result"])

\* the device runs the committed command buffer and signals completion; a
\* successful run leaves the kernel's output in the result buffer
DeviceComplete ==
    /\ cmd.status = "committed"
    /\ cmd' = [cmd EXCEPT !.status = "completed"]
    /\ \E out \in DispatchOutputs : buffers' = [buffers EXCEPT !["buffer_result"] = out]
    /\ UNCHANGED <<pc, op, a, b, scalar, loadlog, pipeline, trace, ret, mat, mret, calls, device, wide, prev, heap>>

\* the device reports an execution failure for the committed command buffer
\* (status Error): what the result buffer then holds is not defined
DeviceFail ==
    /\ cmd.status = "committed"
    /\ cmd' = [cmd EXCEPT !.status = "error"]
    /\ \E out \in DispatchOutputs \cup {buffers["buffer_result"]} :
          buffers' = [buffers EXCEPT !["buffer_result"] = out]
    /\ UNCHANGED <<pc, op, a, b, scalar, loadlog, pipeline, trace, ret, mat, mret, calls, device, wide, prev, heap>>

\* variant of the wait: it returns without the device having signalled
WaitUntilCompleted_NoWait ==
    /\ pc = "wait"
    /\ trace' = Append(trace, "wait_until_completed")
    /\ pc' = "read_results"
    /\ UNCHANGED <<op, a, b, scalar, loadlog, pipeline, buffers, cmd, ret, mat, mret, calls, device, wide, prev, heap>>

\* command_buffer.wait_until_completed(); Ok(())
\* the wait ends when the command buffer left the queue, whether it completed
\* or failed; execute_compute then returns Ok(()) without reading its status
WaitUntilCompleted ==
    /\ pc = "wait"
    /\ cmd.status \in {"completed", "error"}
    /\ trace' = Append(trace, "wait_until_completed")
    /\ pc' = "read_results"
    /\ UNCHANGED <<op, a, b, scalar, loadlog, pipeline, buffers, cmd, ret, mat, mret, calls, device, wide, prev, heap>>

\* the heap once the call returned r: the Vec result_data, allocated by
\* vec![0.0f32; n], has moved into the returned value (the dot product returns
\* an f32 by value) and the local buffers are dropped
ReturnHeap(h, o, r, data_id) ==
    LET d == DropBuffers(h)
    IN IF r.kind = "Ok" /\ o # "vector_dot_product"
       THEN [d EXCEPT !.at = @ @@ ("ret.data" :> data_id)]
       ELSE d

\* variant of the read: the result is written over operand a's own Vec,
\* which is then returned
ReadResults_InPlace ==
    /\ pc = "read_results"
    /\ trace' = Append(trace, "contents")
    /\ LET result_data == SubSeq(buffers["buffer_result"], 1, ResultCount(op, a, b))
       IN /\ ret' = Finish(op, a, b, result_data)
          /\ a' = [a EXCEPT !.data = result_data]
          /\ heap' = ReturnHeap(heap, op, Finish(op, a, b, result_data), heap.at["a.data"])
    /\ buffers' = NoBuffers
    /\ pc' = "returned"
    /\ UNCHANGED <<op, b, scalar, loadlog, pipeline, cmd, mat, mret, calls, device, wide, prev>>

\* variant of the read: the returned Vec is built on buffer_result.contents()
\* itself (Vec::from_raw_parts) instead of on a copy
ReadResults_Aliased ==
    /\ pc = "read_results"
    /\ trace' = Append(trace, "contents")
    /\ LET result_data == SubSeq(buffers["buffer_result"], 1, ResultCount(op, a, b))
       IN /\ ret' = Finish(op, a, b, result_data)
          /\ heap' = ReturnHeap(heap, op, Finish(op, a, b, result_data),
                                heap.at["buffer_result"])
    /\ buffers' = NoBuffers
    /\ pc' = "returned"
    /\ UNCHANGED <<op, a, b, scalar, loadlog, pipeline, cmd, mat, mret, calls, device, wide, prev>>

\* `// Read results`: copy ResultCount elements out of buffer_result.contents()
\* into a new Vec and return it in a new value; the local buffers are dropped
\* on return
ReadResults ==
    /\ pc = "read_results"
    /\ trace' = Append(trace, "contents")
    /\ LET result_data == SubSeq(buffers["buffer_result"], 1, ResultCount(op, a, b))
       IN /\ ret' = Finish(op, a, b, result_data)
          /\ heap' = ReturnHeap(heap, op, Finish(op, a, b, result_data), FreshId(heap))
    /\ buffers' = NoBuffers
    /\ pc' = "returned"
    /\ UNCHANGED <<op, a, b, scalar, loadlog, pipeline, cmd, mat, mret, calls, device, wide, prev>>

Next ==
    \/ CallBinary
    \/ CallTranspose
    \/ CallScalarMultiply
    \/ CallVector
    \/ CallMultiplyIdentity
    \/ CallMultiplyExample
    \/ CallOnResult
    \/ Validate
    \/ LoadRead
    \/ LoadCompile
    \/ LoadGetFunction
    \/ LoadPipeline
    \/ CreateBuffers
    \/ NewCommandBuffer
    \/ NewEncoder
    \/ EncoderSetup
    \/ EndEncoding
    \/ Commit
    \/ DeviceComplete
    \/ DeviceFail
    \/ WaitUntilCompleted
    \/ ReadResults
    \/ Release

Spec == Init /\ [][Next]_vars

\* the steps of a call the host thread takes by itself: once it is in a call
\* it runs on until it blocks in wait_until_completed, returns or unwinds
HostStep ==
    \/ Validate
    \/ LoadRead
    \/ LoadCompile
    \/ LoadGetFunction
    \/ LoadPipeline
    \/ CreateBuffers
    \/ NewCommandBuffer
    \/ NewEncoder
    \/ EncoderSetup
    \/ EndEncoding
    \/ Commit
    \/ WaitUntilCompleted
    \/ ReadResults
\* the device signals the end of a committed command buffer
DeviceSignal == DeviceComplete \/ DeviceFail

\* the operation layer with a host thread that keeps running and a device
\* that eventually signals every committed command buffer
SpecFair == Spec /\ WF_vars(HostStep) /\ WF_vars(DeviceSignal)
\* the same host thread with a device that may never signal
SpecHostFair == Spec /\ WF_vars(HostStep)

(* ---------- a whole operation call, seen from the caller --------------- *)
\* what a call returns once its kernel loaded: the validation error, the
\* panic of the threadgroup computation, or Finish on the result buffer, which
\* holds the kernel's output if the device completed and its initial contents
\* (fill) if the dispatch did not run
OperationOutcome(o, x, y, s, mt, fill, completed) ==
    IF ValidationFails(o, x, y) THEN Err(ValidationError(o))
    ELSE LET tg == ThreadgroupSize(o, x, y, mt)
             plan == BufferPlan(o, x, y, s, fill)
             content(n) == plan[CHOOSE j \in 1..Len(plan) : plan[j][1] = n][3]
             slots == [i \in 1..Len(Bindings(o)) |-> content(Bindings(o)[i])]
             out == IF completed
                    THEN KernelOutput(o, slots, GridSize(o, x, y), content("buffer_result"))
                    ELSE content("buffer_result")
         IN IF tg.kind = "Panic" THEN tg
            ELSE Finish(o, x, y, SubSeq(out, 1, ResultCount(o, x, y)))

(* ------------- the host program's Matrix and its methods --------------- *)
Called(m, k, v) == [method |-> m, kind |-> k, value |-> v]
InDomain(m) == Len(m.data) <= MaxElems /\ \A i \in 1..Len(m.data) : m.data[i] \in Values
\* constructor arguments of the host program
Shapes == {rc \in Dims \X Dims : rc[1] * rc[2] <= MaxElems}
\* data arguments tried for a rows*cols = n matrix: one short, exact, one long
DataArgs(n) == {Ramp(l, v) : l \in {k \in (n - 1)..(n + 1) : k >= 0}, v \in Values}

\* let mat = Matrix::new(rows, cols)
MNew ==
    /\ pc = "idle"
    /\ \E rc \in Shapes : mat' = Matrix_new(rc[1], rc[2])
    /\ mret' = Called("new", "Ok", 0)
    /\ UNCHANGED opvars

WithDataCall(r, c, d) ==
    LET o == Matrix_with_data(r, c, d)
    IN /\ mat' = IF o.kind = "Ok" THEN o.value ELSE mat
       /\ mret' = Called("with_data", o.kind, 0)

\* let mat = Matrix::with_data(rows, cols, data)?
MWithData ==
    /\ pc = "idle"
    /\ \E rc \in Shapes : \E d \in DataArgs(rc[1] * rc[2]) : WithDataCall(rc[1], rc[2], d)
    /\ UNCHANGED opvars

\* let mat = Matrix::vector(data)
MVector ==
    /\ pc = "idle"
    /\ \E n \in Dims, v \in Values : mat' = Matrix_vector(Ramp(n, v))
    /\ mret' = Called("vector", "Ok", 0)
    /\ UNCHANGED opvars

\* let mat = Matrix::identity(n)
MIdentity ==
    /\ pc = "idle"
    /\ \E n \in {k \in Dims : k * k <= MaxElems} :
          LET o == Matrix_identity(n)
          IN /\ mat' = IF o.kind = "Ok" THEN o.value ELSE mat
             /\ mret' = Called("identity", o.kind, 0)
    /\ UNCHANGED opvars

GetCall(r, c) ==
    LET o == Matrix_get(mat, r, c)
    IN /\ mat' = mat
       /\ mret' = Called("get", o.kind, o.value)

\* mat.get(row, col)
MGet ==
    /\ pc = "idle"
    /\ \E r \in Dims, c \in Dims : GetCall(r, c)
    /\ UNCHANGED opvars

SetCall(r, c, v) ==
    LET o == Matrix_set(mat, r, c, v)
    IN /\ mat' = IF o.kind = "Ok" THEN o.value ELSE mat
       /\ mret' = Called("set", o.kind, 0)

\* mat.set(row, col, value)
MSet ==
    /\ pc = "idle"
    /\ \E r \in Dims, c \in Dims, v \in Values : SetCall(r, c, v)
    /\ UNCHANGED opvars

\* let mat = mat.row(row)
MRow ==
    /\ pc = "idle"
    /\ \E r \in Dims :
          LET o == Matrix_row(mat, r)
          IN /\ mat' = IF o.kind = "Ok" THEN o.value ELSE mat
             /\ mret' = Called("row", o.kind, 0)
    /\ UNCHANGED opvars

\* let mat = mat.column(col)
MColumn ==
    /\ pc = "idle"
    /\ \E c \in Dims :
          LET o == Matrix_column(mat, c)
          IN /\ mat' = IF o.kind = "Ok" THEN o.value ELSE mat
             /\ mret' = Called("column", o.kind, 0)
    /\ UNCHANGED opvars

\* the second operand of a binary operation on mat
OtherOperands(m) ==
    {m, Matrix_new(m.rows, m.cols), Matrix_new(m.cols, m.rows)}
        \cup {Matrix_identity(n).value : n \in Dims}

\* what a call of operation o on m can return, over every second operand,
\* scalar and thread limit: the error of a kernel that fails to load, or the
\* outcome of the call when the device wrote the result buffer (it completed)
\* or left it as allocated (it failed), zero-filled or not
Outcomes(o, m) ==
    UNION { (IF ValidationFails(o, m, y) THEN {} ELSE {Err(LoadError("read_to_string"))})
            \cup { OperationOutcome(o, m, y, s, mt, fw[1], fw[2]) :
                     mt \in ThreadLimits,
                     fw \in {<<0, TRUE>>, <<0, FALSE>>, <<Garbage, FALSE>>} } :
        y \in (IF o \in BinaryMatrixOps THEN OtherOperands(m) ELSE {Matrix_new(0, 0)}),
        s \in (IF o = "matrix_scalar_multiply" THEN Values ELSE {0}) }

\* let mat = <operation>(&context, &mat, &other)?: a whole operation call on
\* mat; the host keeps a returned matrix that is within the model's bounds
MOperation ==
    /\ pc = "idle"
    /\ \E o \in MatrixOps : \E r \in Outcomes(o, mat) :
          /\ mat' = IF r.kind = "Ok" /\ InDomain(r.value) THEN r.value ELSE mat
          /\ mret' = Called(o, r.kind, 0)
    /\ UNCHANGED opvars

NextMatrix ==
    \/ MNew
    \/ MWithData
    \/ MVector
    \/ MIdentity
    \/ MGet
    \/ MSet
    \/ MRow
    \/ MColumn
    \/ MOperation

SpecMatrix == Init /\ [][NextMatrix]_vars

(* ------- two host threads calling operations on one MetalContext ------- *)
\* the state of the single-call specification
callvars ==
    <<pc, op, a, b, scalar, loadlog, pipeline, buffers, cmd, trace, ret, mat, mret, prev, heap>>
\* everything but the two threads' calls and the shared device
solovars == <<pc, op, a, b, scalar, loadlog, pipeline, buffers, cmd, trace, ret, mat, mret,
              prev, heap, wide>>

\* operands and invocations of the two threads
PairRow == Matrix_with_data(1, 2, <<0, 1>>).value
PairColumn == Matrix_with_data(2, 1, <<1, 0>>).value
PairInvocations ==
    {<<o, PairRow, y, 0>> : o \in BinaryMatrixOps, y \in {PairRow, PairColumn}}
        \cup {<<"matrix_transpose", x, Matrix_new(0, 0), 0>> : x \in {PairRow, Matrix_new(1, 0)}}
        \cup {<<"matrix_scalar_multiply", PairColumn, Matrix_new(0, 0), 2>>}
PairThreadLimits == {1, 64}

\* allocations a call holds, the contents of an allocation (a freed one reads
\* as nothing), and the device memory without a set of allocations
HeldIds(c) == {c.bufs[n] : n \in DOMAIN c.bufs}
Contents(dev, id) == IF id \in DOMAIN dev.mem THEN dev.mem[id] ELSE <<>>
Without(f, ids) == [i \in DOMAIN f \ ids |-> f[i]]

\* thread t calls an operation with &context
PairEnter(t) ==
    /\ pc = "idle"
    /\ calls[t].pc = "idle"
    /\ \E inv \in PairInvocations :
          calls' = [calls EXCEPT ![t] =
                      [NoCall EXCEPT !.pc = "validate", !.op = inv[1], !.a = inv[2],
                                     !.b = inv[3], !.scalar = inv[4]]]
    /\ UNCHANGED <<device, solovars>>

\* if <shapes incompatible> { anyhow::bail!(...) }
PairValidate(t) ==
    /\ calls[t].pc = "validate"
    /\ LET c == calls[t]
       IN calls' = [calls EXCEPT ![t] =
                      IF ValidationFails(c.op, c.a, c.b)
                      THEN [c EXCEPT !.pc = "returned", !.ret = Err(ValidationError(c.op))]
                      ELSE [c EXCEPT !.pc = "load"]]
    /\ UNCHANGED <<device, solovars>>

\* let pipeline = context.load_kernel(...)?: the pipeline is a value of the
\* call; failing = 0 when the four steps succeed, else the step that fails
PairLoad(t) ==
    /\ calls[t].pc = "load"
    /\ \E failing \in 0..Len(LoadSteps), mt \in PairThreadLimits :
          calls' = [calls EXCEPT ![t] =
                      IF failing = 0
                      THEN [@ EXCEPT !.pc = "alloc", !.max_threads = mt]
                      ELSE [@ EXCEPT !.pc = "returned",
                                     !.ret = Err(LoadError(LoadSteps[failing]))]]
    /\ UNCHANGED <<device, solovars>>

\* the `// Create buffers` block: each buffer is a new allocation of the
\* shared device, held by a local of the call
PairCreateBuffers(t) ==
    /\ calls[t].pc = "alloc"
    /\ \E fill \in {0, Garbage} :
          LET c == calls[t]
              plan == BufferPlan(c.op, c.a, c.b, c.scalar, fill)
              id(i) == BufferAllocation(plan[i][2], device.next + i - 1)
              new == {id(i) : i \in 1..Len(plan)}
              of(j) == CHOOSE i \in 1..Len(plan) : id(i) = j
          IN /\ calls' = [calls EXCEPT ![t] =
                            [@ EXCEPT !.pc = "encode", !.fill = fill,
                                      !.bufs = [n \in {plan[i][1] : i \in 1..Len(plan)} |->
                                                  id(CHOOSE i \in 1..Len(plan) : plan[i][1] = n)]]]
             /\ device' = [device EXCEPT
                    !.mem = [j \in DOMAIN @ \cup new |->
                                IF j \in new THEN plan[of(j)][3] ELSE @[j]],
                    !.owner = [j \in DOMAIN @ \cup new |-> IF j \in new THEN t ELSE @[j]],
                    !.next = @ + Len(plan)]
    /\ UNCHANGED solovars

\* execute_compute up to end_encoding: a new command buffer of the shared
\* queue, the bindings and the dispatch of the setup closure; a panic in the
\* threadgroup computation unwinds the thread's call and drops its buffers
PairEncode(t) ==
    /\ calls[t].pc = "encode"
    /\ LET c == calls[t]
           tg == ThreadgroupSize(c.op, c.a, c.b, c.max_threads)
           cb == [owner |-> t, kernel |-> c.op,
                  bound |-> [i \in 1..Len(Bindings(c.op)) |-> c.bufs[Bindings(c.op)[i]]],
                  result |-> c.bufs["buffer_result"],
                  grid |-> GridSize(c.op, c.a, c.b)]
       IN IF tg.kind = "Panic"
          THEN /\ calls' = [calls EXCEPT ![t] =
                              [@ EXCEPT !.pc = "panicked", !.ret = tg,
                                        !.bufs = NoCall.bufs, !.cb = Len(device.queue) + 1]]
               /\ device' = [device EXCEPT
                      !.queue = Append(@, cb @@ [status |-> "abandoned",
                                                 threadgroup |-> <<0, 0, 0>>]),
                      !.mem = Without(@, HeldIds(c)),
                      !.owner = Without(@, HeldIds(c))]
          ELSE /\ calls' = [calls EXCEPT ![t] =
                              [@ EXCEPT !.pc = "commit", !.cb = Len(device.queue) + 1]]
               /\ device' = [device EXCEPT
                      !.queue = Append(@, cb @@ [status |-> "encoded",
                                                 threadgroup |-> tg.value])]
    /\ UNCHANGED solovars

\* command_buffer.commit();
PairCommit(t) ==
    /\ calls[t].pc = "commit"
    /\ calls' = [calls EXCEPT ![t].pc = "wait"]
    /\ device' = [device EXCEPT !.queue[calls[t].cb].status = "committed"]
    /\ UNCHANGED solovars

\* what the device leaves in memory after running command buffer cb, whose
\* dispatch left `out` in its result buffer, and the accesses it made
DeviceRun(dev, n, status, out) ==
    LET cb == dev.queue[n]
    IN [dev EXCEPT
           !.queue[n].status = status,
           !.mem = IF cb.result \in DOMAIN @ THEN [@ EXCEPT ![cb.result] = out] ELSE @,
           !.touched = @ \cup {<<cb.owner, cb.bound[i]>> : i \in 1..Len(cb.bound)}]

\* what the dispatch of command buffer n may leave in its result buffer
PairDispatchOutputs(dev, n) ==
    LET cb == dev.queue[n]
    IN KernelOutputs(cb.kernel, [i \in 1..Len(cb.bound) |-> Contents(dev, cb.bound[i])],
                     cb.grid, cb.threadgroup, Contents(dev, cb.result))

\* the device runs a committed command buffer and signals its completion
PairDeviceComplete ==
    /\ \E n \in 1..Len(device.queue) :
          /\ device.queue[n].status = "committed"
          /\ \E out \in PairDispatchOutputs(device, n) :
                device' = DeviceRun(device, n, "completed", out)
    /\ UNCHANGED <<calls, solovars>>

\* the device reports an execution failure for a committed command buffer
PairDeviceFail ==
    /\ \E n \in 1..Len(device.queue) :
          /\ device.queue[n].status = "committed"
          /\ \E out \in PairDispatchOutputs(device, n)
                         \cup {Contents(device, device.queue[n].result)} :
                device' = DeviceRun(device, n, "error", out)
    /\ UNCHANGED <<calls, solovars>>

\* command_buffer.wait_until_completed(); Ok(())
PairWaitUntilCompleted(t) ==
    /\ calls[t].pc = "wait"
    /\ device.queue[calls[t].cb].status \in {"completed", "error"}
    /\ calls' = [calls EXCEPT ![t].pc = "read"]
    /\ UNCHANGED <<device, solovars>>

\* `// Read results` and the return: the thread copies ResultCount elements
\* out of its buffer_result, and its local buffers are dropped
PairReadResults(t) ==
    /\ calls[t].pc = "read"
    /\ LET c == calls[t]
           from == Contents(device, c.bufs["buffer_result"])
           result_data == [i \in 1..ResultCount(c.op, c.a, c.b) |-> Read(from, i - 1)]
       IN /\ calls' = [calls EXCEPT ![t] =
                         [@ EXCEPT !.pc = "returned", !.bufs = NoCall.bufs,
                                   !.ret = Finish(c.op, c.a, c.b, result_data)]]
          /\ device' = [device EXCEPT
                 !.mem = Without(@, HeldIds(c)),
                 !.owner = Without(@, HeldIds(c)),
                 !.touched = @ \cup {<<t, c.bufs["buffer_result"]>>}]
    /\ UNCHANGED solovars

NextPair ==
    \/ \E t \in Threads : PairEnter(t)
    \/ \E t \in Threads : PairValidate(t)
    \/ \E t \in Threads : PairLoad(t)
    \/ \E t \in Threads : PairCreateBuffers(t)
    \/ \E t \in Threads : PairEncode(t)
    \/ \E t \in Threads : PairCommit(t)
    \/ PairDeviceComplete
    \/ PairDeviceFail
    \/ \E t \in Threads : PairWaitUntilCompleted(t)
    \/ \E t \in Threads : PairReadResults(t)

SpecPair == Init /\ [][NextPair]_vars

(* ------ dimension parameters of calls on operands of any usize shape ---- *)
\* dimensions a Matrix can have: below 2^32, or 2^32 and above (hi = 1)
WideDims == {Usize(h, l) : h \in 0..1, l \in Dims}
\* Matrix::new(rows, cols) allocates rows * cols elements: the host can build
\* the matrix when that product is small, in particular when it is 0
Constructible(rows, cols) ==
    \/ rows = Usize(0, 0)
    \/ cols = Usize(0, 0)
    \/ rows.hi = 0 /\ cols.hi = 0 /\ rows.lo * cols.lo <= MaxElems

\* x as u32: the low 32 bits of x
AsU32(w) == Usize(0, U32(w.lo))
\* x as u64: a usize of a 64-bit target unchanged
AsU64(w) == w

\* matrix_multiply(&context, &a, &b) with a of rows x cols and b of cols x other:
\* let m = a.rows; let n = b.cols; let k = a.cols (validation passed)
WideCallMultiply ==
    /\ pc = "idle"
    /\ wide.pc = "idle"
    /\ \E m \in WideDims, k \in WideDims, n \in WideDims :
          /\ Constructible(m, k)
          /\ Constructible(k, n)
          /\ wide' = [NoWide EXCEPT !.pc = "cast", !.op = "matrix_multiply",
                                    !.rows = m, !.cols = k, !.other = n]
    /\ UNCHANGED <<calls, device, callvars>>

\* matrix_transpose(&context, &a): let rows = a.rows; let cols = a.cols
WideCallTranspose ==
    /\ pc = "idle"
    /\ wide.pc = "idle"
    /\ \E r \in WideDims, c \in WideDims :
          /\ Constructible(r, c)
          /\ wide' = [NoWide EXCEPT !.pc = "cast", !.op = "matrix_transpose",
                                    !.rows = r, !.cols = c]
    /\ UNCHANGED <<calls, device, callvars>>

\* `// Create dimension buffers`: let m_val = m as u32; ... the values the
\* one-element buffers are created from, in slot order
WideCast ==
    /\ wide.pc = "cast"
    /\ wide' = [wide EXCEPT
           !.pc = "grid",
           !.params = IF wide.op = "matrix_multiply"
                      THEN <<AsU32(wide.rows), AsU32(wide.other), AsU32(wide.cols)>>
                      ELSE <<AsU32(wide.rows), AsU32(wide.cols)>>]
    /\ UNCHANGED <<calls, device, callvars>>

\* let grid_size = MTLSize::new(n as u64, m as u64, 1) and
\* MTLSize::new(cols as u64, rows as u64, 1)
WideGrid ==
    /\ wide.pc = "grid"
    /\ wide' = [wide EXCEPT
           !.pc = "dispatch",
           !.grid = IF wide.op = "matrix_multiply"
                    THEN <<AsU64(wide.other), AsU64(wide.rows), Usize(0, 1)>>
                    ELSE <<AsU64(wide.cols), AsU64(wide.rows), Usize(0, 1)>>]
    /\ UNCHANGED <<calls, device, callvars>>

\* the call is over
WideRelease ==
    /\ wide.pc = "dispatch"
    /\ wide' = NoWide
    /\ UNCHANGED <<calls, device, callvars>>

NextWide ==
    \/ WideCallMultiply
    \/ WideCallTranspose
    \/ WideCast
    \/ WideGrid
    \/ WideRelease

SpecWide == Init /\ [][NextWide]_vars

(* ======================= claims on the operation layer ================= *)
\* the shape rule of the per-operation contract table, stated on the operands
ShapesIncompatible(o, x, y) ==
    \/ o = "matrix_multiply" /\ x.cols # y.rows
    \/ o \in {"matrix_add", "matrix_subtract"} /\ (x.rows # y.rows \/ x.cols # y.cols)
    \/ o \in VectorOps /\ Len(x.data) # Len(y.data)

InCall == pc \notin {"idle", "validate"}
LoadFailed == \E i \in 1..Len(loadlog) : ~loadlog[i][2]

\* C1: a call of a validating operation (multiply, add, subtract, dot product,
\* vector add) on operands of incompatible shapes returns the operation's
\* dimension-mismatch error and has had no device interaction: no load_kernel
\* step, no buffer, no command buffer, no dispatch.
C1_MismatchFailsBeforeDevice ==
    (InCall /\ ShapesIncompatible(op, a, b)) =>
        /\ pc = "returned"
        /\ ret.kind = "Err"
        /\ ret.err = ValidationError(op)
        /\ trace = <<>>
        /\ loadlog = <<>>
        /\ ~pipeline.built
        /\ buffers = NoBuffers
        /\ cmd = NoCmd

C1_Witness ==
    /\ pc = "returned"
    /\ op = "matrix_add"
    /\ a.rows = 2 /\ a.cols = 2 /\ b.rows = 1 /\ b.cols = 1
    /\ ret.kind = "Err"

\* C2: matrix_multiply(A, B) returns its validation error exactly when
\* A.cols # B.rows; when A.cols = B.rows, whatever A.rows and B.cols are, the
\* call goes on to load_kernel (its read step is the next step or has run).
C2_MultiplyValidation ==
    (op = "matrix_multiply" /\ InCall) =>
        /\ (a.cols # b.rows) <=>
              (pc = "returned" /\ ret.kind = "Err" /\ ret.err = ValidationError(op))
        /\ (a.cols = b.rows) => (pc = "load_read" \/ Len(loadlog) >= 1)

C2_Witness ==
    /\ op = "matrix_multiply"
    /\ a.cols = b.rows
    /\ a.rows # b.cols
    /\ a.rows # a.cols
    /\ pc = "load_read"

\* C3: matrix_add and matrix_subtract return their validation error exactly
\* when the operands' shapes differ, also when the element counts agree (1x2
\* and 2x1); a result they return has the shape A.rows x A.cols.
C3_AddSubtractValidation ==
    (op \in {"matrix_add", "matrix_subtract"} /\ InCall) =>
        /\ (a.rows # b.rows \/ a.cols # b.cols) <=>
              (pc = "returned" /\ ret.kind = "Err" /\ ret.err = ValidationError(op))
        /\ (pc = "returned" /\ ret.kind = "Ok") =>
              (ret.value.rows = a.rows /\ ret.value.cols = a.cols)

C3_Witness ==
    /\ op = "matrix_subtract"
    /\ a.rows * a.cols = b.rows * b.cols
    /\ a.rows * a.cols > 0
    /\ a.rows # b.rows
    /\ pc = "returned"
    /\ ret.kind = "Err"

\* C4 (as claimed): matrix_transpose and matrix_scalar_multiply are valid for
\* every m x n operand, m = 0 or n = 0 included, and every max thread count:
\* once the kernel loaded the call does not abort and does not return an error,
\* and what it returns is n x m (transpose) or m x n (scalar multiply).
C4_UnaryAlwaysValid ==
    (op \in UnaryMatrixOps /\ pipeline.built) =>
        /\ pc # "panicked"
        /\ ret.kind \notin {"Err", "Panic"}
        /\ pc = "returned" =>
              /\ ret.kind = "Ok"
              /\ ret.value.rows = (IF op = "matrix_transpose" THEN a.cols ELSE a.rows)
              /\ ret.value.cols = (IF op = "matrix_transpose" THEN a.rows ELSE a.cols)

(* ----------------------------- C7 -------------------------------------- *)
EcOrder == <<"new_command_buffer", "new_compute_command_encoder", "encoder_setup",
             "end_encoding", "commit", "wait_until_completed">>
IsEcStep(e) == \E i \in 1..Len(EcOrder) : EcOrder[i] = e
EcTrace == SelectSeq(trace, IsEcStep)
IsPrefixOf(s, t) == Len(s) <= Len(t) /\ \A i \in 1..Len(s) : s[i] = t[i]
DeviceSignalled == cmd.status \in {"completed", "error"}
HasRead == \E i \in 1..Len(trace) : trace[i] = "contents"

C8_DeviceFailureIsReturned ==
    (pc = "returned" /\ cmd.status = "error") => ret.kind = "Err"

(* ----------------------------- C9 -------------------------------------- *)
LoadDone == Len(loadlog) >= 1 /\ pc \notin {"load_compile", "load_get_function", "load_pipeline"}
LoadOrderOk ==
    /\ Len(loadlog) <= Len(LoadSteps)
    /\ \A i \in 1..Len(loadlog) : loadlog[i][1] = LoadSteps[i]
    /\ \A i \in 1..(Len(loadlog) - 1) : loadlog[i][2]

\* C9 (as claimed): load_kernel fails when the read, the compilation or the
\* function lookup fails, and in every other case returns a built pipeline.
C9_ThreeFailuresOnly ==
    /\ LoadOrderOk
    /\ LoadDone =>
          IF \E i \in 1..Min(Len(loadlog), 3) : ~loadlog[i][2]
          THEN ret.kind = "Err" /\ ~pipeline.built
          ELSE pipeline.built

\* C9 (amended): load_kernel runs read, compile, get function, build pipeline
\* in this order; the first failing step of the four ends the call with that
\* step's error and no later step runs; when all four succeed the pipeline is
\* built by the time the call returns, and never otherwise.
C9_LoadKernel ==
    /\ LoadOrderOk
    /\ LoadDone =>
          IF LoadFailed
          THEN /\ pc = "returned"
               /\ ret.kind = "Err"
               /\ ret.err = LoadError(loadlog[Len(loadlog)][1])
               /\ ~pipeline.built
          ELSE /\ Len(loadlog) = Len(LoadSteps)
               /\ pipeline.built
               /\ pipeline.kernel = op
    /\ pipeline.built => (Len(loadlog) = Len(LoadSteps) /\ ~LoadFailed)

C9_Witness ==
    /\ pc = "returned"
    /\ Len(loadlog) = 4
    /\ loadlog[1][2] /\ loadlog[2][2] /\ loadlog[3][2] /\ ~loadlog[4][2]
    /\ ret.kind = "Err"

\* C10 (as claimed): a failed load_kernel ends the operation with that error,
\* with no buffer, no command buffer, no dispatch and no second attempt; and
\* an operation that returned a value had no failed step: the kernel loaded
\* and the device completed the dispatch.
C10_NoLocalRecovery ==
    /\ LoadFailed =>
          /\ pc = "returned"
          /\ ret.kind = "Err"
          /\ trace = <<"load_kernel">>
          /\ buffers = NoBuffers
          /\ cmd = NoCmd
    /\ (pc = "returned" /\ ret.kind = "Ok") =>
          /\ ~LoadFailed
          /\ cmd.status = "completed"

(* ================= claims on the results of the operations ============= *)
\* the call ran with the kernel loaded and the device completed its dispatch
Computed == pc = "returned" /\ ret.kind = "Ok" /\ cmd.status = "completed"

\* C11: a matrix_multiply(A, B) call that returned a matrix returned one with
\* rows = A.rows, cols = B.cols and exactly A.rows * B.cols elements.
C11_MultiplyShape ==
    (op = "matrix_multiply" /\ pc = "returned" /\ ret.kind = "Ok") =>
        /\ ret.value.rows = a.rows
        /\ ret.value.cols = b.cols
        /\ Len(ret.value.data) = a.rows * b.cols

C11_Witness ==
    /\ op = "matrix_multiply"
    /\ pc = "returned"
    /\ ret.kind = "Ok"
    /\ a.rows = 2 /\ a.cols = 1 /\ b.rows = 1 /\ b.cols = 1
    /\ ret.value.rows = 2 /\ ret.value.cols = 1

\* C12 (as claimed): for every m x k matrix A, matrix_multiply(A, I) with
\* I = Matrix::identity(k), run with the kernel loaded and no device failure,
\* does not abort and returns a matrix equal to A in shape and in every element.
C12_MultiplyByIdentity ==
    (/\ op = "matrix_multiply"
     /\ b = Matrix_identity(a.cols).value
     /\ pipeline.built
     /\ cmd.status # "error") =>
        /\ pc # "panicked"
        /\ pc = "returned" => (ret.kind = "Ok" /\ ret.value = a)

\* element (i, j) of the matrix product of row-major x and y, summed over the
\* first t inner indices
RECURSIVE ProductElement(_, _, _, _, _)
ProductElement(x, y, i, j, t) ==
    IF t = 0 THEN 0
    ELSE ProductElement(x, y, i, j, t - 1)
         + x.data[i * x.cols + (t - 1) + 1] * y.data[(t - 1) * y.cols + j + 1]

\* C13: a matrix_multiply(A, B) whose dispatch the device completed returns
\* the row-major product: element i*B.cols + j of the result is the sum over
\* t < A.cols of A[i*A.cols + t] * B[t*B.cols + j] for every i < A.rows and
\* j < B.cols, whatever the result buffer held before the dispatch; the 2x3
\* [1..6] and 3x2 [7..12] of the documentation give [58, 64, 139, 154].
C13_MultiplyIsProduct ==
    (op = "matrix_multiply" /\ Computed) =>
        /\ \A i \in 0..(a.rows - 1) : \A j \in 0..(b.cols - 1) :
              ret.value.data[i * b.cols + j + 1] = ProductElement(a, b, i, j, a.cols)
        /\ (a = ExampleA /\ b = ExampleB) =>
              (/\ ret.value.rows = 2 /\ ret.value.cols = 2
               /\ ret.value.data = <<58, 64, 139, 154>>)

C13_Witness ==
    /\ op = "matrix_multiply"
    /\ Computed
    /\ a = ExampleA
    /\ b = ExampleB
    /\ ret.value.data = <<58, 64, 139, 154>>

\* the running call takes the result of an earlier call of o whose dispatch
\* the device completed
FedBy(o) == prev.op = o /\ prev.status = "completed"
\* the running call has ended with its kernel loaded and its dispatch completed
RanToEnd == pc = "returned" /\ ~LoadFailed /\ cmd.status = "completed"

\* C14: for A and B of the same shape, matrix_subtract(matrix_add(A, B), B)
\* passes validation, does not abort, and with its kernel loaded and its
\* dispatch completed returns a matrix equal to A in shape and every element.
C14_AddSubtractRoundTrip ==
    (op = "matrix_subtract" /\ FedBy("matrix_add") /\ InCall) =>
        /\ b = prev.b
        /\ ~ValidationFails(op, a, b)
        /\ pc # "panicked"
        /\ pc = "returned" => (LoadFailed \/ cmd.status \in {"completed", "error"})
        /\ RanToEnd => (ret.kind = "Ok" /\ ret.value = prev.a)

C14_Witness ==
    /\ op = "matrix_subtract"
    /\ FedBy("matrix_add")
    /\ RanToEnd
    /\ prev.a.rows = 1 /\ prev.a.cols = 2
    /\ prev.a.data[2] # 0
    /\ b.data[1] # 0
    /\ ret.value = prev.a

\* the kernel is loaded and the device has not reported a failure
NoFault == pipeline.built /\ cmd.status # "error"

\* C15 (as claimed): for every m x n matrix A, matrix_transpose(A) returns the
\* n x m matrix whose element (j, i) is A's element (i, j), and
\* matrix_transpose of that result returns a matrix with A's shape and values.
C15_TransposeInvolution ==
    /\ (op = "matrix_transpose" /\ prev = NoPrev /\ NoFault) =>
          /\ pc # "panicked"
          /\ pc = "returned" =>
                /\ ret.kind = "Ok"
                /\ ret.value.rows = a.cols
                /\ ret.value.cols = a.rows
                /\ \A i \in 0..(a.rows - 1) : \A j \in 0..(a.cols - 1) :
                      ret.value.data[j * a.rows + i + 1] = a.data[i * a.cols + j + 1]
    /\ (op = "matrix_transpose" /\ FedBy("matrix_transpose") /\ NoFault) =>
          /\ pc # "panicked"
          /\ pc = "returned" => (ret.kind = "Ok" /\ ret.value = prev.a)

\* C16: matrix_scalar_multiply(s, A) passes validation and does not abort for
\* every m x n matrix A, and with its kernel loaded and its dispatch completed
\* it returns A itself (shape and every element) when s = 1.0 and the m x n
\* matrix of zeros when s = 0.0.
C16_ScalarOneAndZero ==
    (op = "matrix_scalar_multiply" /\ InCall) =>
        /\ pc # "panicked"
        /\ pc = "returned" => (LoadFailed \/ cmd.status \in {"completed", "error"})
        /\ RanToEnd =>
              /\ ret.kind = "Ok"
              /\ scalar = 1 => ret.value = a
              /\ scalar = 0 => ret.value = Matrix_new(a.rows, a.cols)

C16_Witness ==
    /\ op = "matrix_scalar_multiply"
    /\ RanToEnd
    /\ scalar = 0
    /\ a.rows = 1 /\ a.cols = 2
    /\ a.data[2] # 0
    /\ ret.value = Matrix_new(1, 2)

\* C17 (as claimed): for vectors a and b of equal size, of any length,
\* vector_dot_product(a, b) run with its kernel loaded and its dispatch
\* completed returns dot_cpu(a, b), which is also dot_cpu(b, a), so that the
\* calls on (a, b) and on (b, a) return the same number; dot([1,0],[0,1]) = 0.
C17_DotProduct ==
    (op = "vector_dot_product" /\ RanToEnd) =>
        /\ ret = Vector_dot_cpu(a, b)
        /\ ret = Vector_dot_cpu(b, a)
        /\ (a.data = <<1, 0>> /\ b.data = <<0, 1>>) => ret.value = 0

\* C18: vector_dot_product(a, b) and vector_add(a, b) return their size error
\* exactly when the lengths of a and b differ, and return no error at all on
\* equal lengths once the kernel loaded; Vector::dot_cpu returns an error
\* exactly when the lengths differ; on equal lengths vector_add, with its
\* dispatch completed, returns a vector of that length with a[i] + b[i] at i.
C18_VectorSizeChecks ==
    (op \in VectorOps /\ InCall) =>
        /\ (Len(a.data) # Len(b.data)) <=>
              (pc = "returned" /\ ret.kind = "Err" /\ ret.err = ValidationError(op))
        /\ (pc = "returned" /\ ret.kind = "Err") =>
              (Len(a.data) # Len(b.data) \/ LoadFailed)
        /\ (Vector_dot_cpu(a, b).kind = "Err") <=> (Len(a.data) # Len(b.data))
        /\ (op = "vector_add" /\ pc = "returned" /\ ret.kind = "Ok") =>
              Len(ret.value) = Len(a.data)
        /\ (op = "vector_add" /\ RanToEnd) =>
              /\ ret.kind = "Ok"
              /\ \A i \in 1..Len(a.data) : ret.value[i] = a.data[i] + b.data[i]

C18_Witness ==
    /\ op = "vector_add"
    /\ RanToEnd
    /\ Len(a.data) = 2
    /\ a.data[2] # 0 /\ b.data[2] # 0
    /\ Len(ret.value) = 2
    /\ ret.value[2] = a.data[2] + b.data[2]

\* the allocations of the caller's operands
OperandIds(h) == {h.at[n] : n \in DOMAIN h.at \cap {"a.data", "b.data"}}

\* C19: no step of a matrix_multiply, matrix_add, matrix_subtract,
\* matrix_transpose or matrix_scalar_multiply call, up to and including the
\* step that returns (a value, an error or a panic), changes the rows, cols
\* or data of an operand, and a returned value owns a Vec that is neither
\* operand's.
C19_OperandsNotMutated ==
    [][(op \in MatrixOps /\ pc \notin {"idle", "returned", "panicked"}) =>
          /\ a' = a
          /\ b' = b
          /\ OperandIds(heap') = OperandIds(heap)
          /\ "ret.data" \in DOMAIN heap'.at =>
                heap'.at["ret.data"] \notin OperandIds(heap')]_vars

C19_Witness ==
    /\ op = "matrix_transpose"
    /\ pc = "returned"
    /\ ret.kind = "Ok"
    /\ a.rows = 1 /\ a.cols = 2
    /\ ret.value # a
    /\ "ret.data" \in DOMAIN heap.at
    /\ heap.at["ret.data"] \notin OperandIds(heap)

\* the elements a returned value holds
ResultData(o, r) ==
    CASE o \in MatrixOps -> r.value.data
      [] o = "vector_add" -> r.value
      [] o = "vector_dot_product" -> <<r.value>>

\* C20: the value an operation returns holds exactly the first ResultCount
\* elements buffer_result held once the device had signalled; its Vec is an
\* allocation of its own, still live after the buffers were dropped, and
\* nothing changes the value afterwards; the input buffers are allocations of
\* their own holding a copy of the operands' data as it was at their creation.
C20_ResultIsHostCopy ==
    [][/\ (pc = "read_results" /\ pc' = "returned" /\ ret'.kind = "Ok") =>
             /\ DeviceSignalled
             /\ ResultData(op, ret') =
                    SubSeq(buffers["buffer_result"], 1, ResultCount(op, a, b))
       /\ (pc' = "returned" /\ "ret.data" \in DOMAIN heap'.at) =>
             /\ heap'.at["ret.data"] \notin heap'.freed
             /\ BufferNames(heap') = {}
             /\ buffers' = NoBuffers
       /\ \A n \in BufferNames(heap') :
             /\ heap'.at[n] \notin OperandIds(heap')
             /\ \A m \in BufferNames(heap') : heap'.at[m] = heap'.at[n] => m = n
       /\ (pc = "alloc" /\ pc' = "new_command_buffer") =>
             /\ buffers'["buffer_a"] = a.data
             /\ op \in BinaryMatrixOps \cup VectorOps => buffers'["buffer_b"] = b.data
       /\ (pc = "returned" /\ pc' = "returned") => ret' = ret]_vars

C20_Witness ==
    /\ op = "matrix_add"
    /\ pc = "returned"
    /\ ret.kind = "Ok"
    /\ cmd.status = "completed"
    /\ a.rows = 2 /\ a.cols = 1
    /\ ret.value.data[2] # 0
    /\ "ret.data" \in DOMAIN heap.at
    /\ heap.at["ret.data"] \notin heap.freed
    /\ heap.freed # {}
    /\ buffers = NoBuffers

(* ================== claims on the sizing of the dispatch =============== *)
\* C21 (as claimed): the threadgroup of every dispatch has at most as many
\* threads (width * height * depth) as the pipeline's reported maximum,
\* whatever that maximum is.
C21_ThreadgroupWithinLimit ==
    \A i \in 1..Len(cmd.dispatches) :
        LET tg == cmd.dispatches[i].threadgroup
        IN tg[1] * tg[2] * tg[3] <= pipeline.max_threads

\* the threadgroup shape the sizing rule gives for a grid of gw x gh cells
SizedFor(gw, gh, max_threads) ==
    <<Min(gw, TileWidth), Max(1, Min(max_threads \div Min(gw, TileWidth), gh)), 1>>

\* C22 (as claimed): the threadgroup of a matrix_multiply or matrix_transpose
\* dispatch is min(output_cols, 16) wide and max(1, min(max_threads / width,
\* output_rows)) high, output_cols and output_rows being the columns and rows
\* of the matrix the call returns (stated where output_cols > 0, so that the
\* division is defined).
C22_ThreadgroupFromOutputShape ==
    (op \in {"matrix_multiply", "matrix_transpose"} /\ ResultShape(op, a, b)[2] > 0) =>
        \A i \in 1..Len(cmd.dispatches) :
            cmd.dispatches[i].threadgroup =
                SizedFor(ResultShape(op, a, b)[2], ResultShape(op, a, b)[1],
                         pipeline.max_threads)

\* C22 (amended): the threadgroup is sized from the dispatch's own grid: width
\* = min(grid width, 16), height = max(1, min(max_threads / width, grid
\* height)); the grid is B.cols x A.rows for multiply, which is the output's
\* cols x rows, and cols x rows of the operand for transpose, which is the
\* output's rows x cols.
C22_ThreadgroupFromGrid ==
    (op \in {"matrix_multiply", "matrix_transpose"}) =>
        \A i \in 1..Len(cmd.dispatches) :
            LET d == cmd.dispatches[i]
            IN /\ d.threadgroup = SizedFor(d.grid[1], d.grid[2], pipeline.max_threads)
               /\ op = "matrix_multiply" =>
                     d.grid = <<ResultShape(op, a, b)[2], ResultShape(op, a, b)[1], 1>>
               /\ op = "matrix_transpose" =>
                     d.grid = <<ResultShape(op, a, b)[1], ResultShape(op, a, b)[2], 1>>

C22_Witness ==
    /\ op = "matrix_transpose"
    /\ a.rows = 1 /\ a.cols = 2
    /\ pipeline.max_threads = 64
    /\ Len(cmd.dispatches) = 1
    /\ cmd.dispatches[1].threadgroup = <<2, 1, 1>>
    /\ pc = "returned"
    /\ ret.kind = "Ok"
    /\ ret.value.rows = 2 /\ ret.value.cols = 1

\* C23: every dispatch of matrix_add, matrix_subtract and
\* matrix_scalar_multiply has the threadgroup (min(max_threads, 256), 1, 1)
\* and every dispatch of vector_add the threadgroup (min(max_threads, 64), 1,
\* 1), whatever the number of elements, 0 and counts below the width included.
C23_ElementwiseThreadgroup ==
    \A i \in 1..Len(cmd.dispatches) :
        LET tg == cmd.dispatches[i].threadgroup
        IN /\ op \in {"matrix_add", "matrix_subtract", "matrix_scalar_multiply"} =>
                 tg = <<(IF pipeline.max_threads < 256 THEN pipeline.max_threads ELSE 256),
                        1, 1>>
           /\ op = "vector_add" =>
                 tg = <<(IF pipeline.max_threads < 64 THEN pipeline.max_threads ELSE 64),
                        1, 1>>

C23_Witness ==
    /\ op = "matrix_add"
    /\ a.rows * a.cols = 0
    /\ pipeline.max_threads = 1024
    /\ Len(cmd.dispatches) = 1
    /\ cmd.dispatches[1].threadgroup = <<256, 1, 1>>
    /\ pc = "returned"

\* the cells of a grid, 0-based <<x, y>>
GridCells(grid) == (0..(grid[1] - 1)) \X (0..(grid[2] - 1))

\* C24: the grid of every dispatch of a matrix operation has one thread per
\* output element: B.cols x A.rows x 1 for multiply, cols x rows x 1 for
\* transpose, (rows * cols) x 1 x 1 for add, subtract and scalar multiply; its
\* number of cells is the number of elements of the result buffer allocated
\* and of the data copied back, and every index of the result buffer is
\* written by exactly one cell.
C24_GridCoversOutput ==
    (op \in MatrixOps) =>
        \A i \in 1..Len(cmd.dispatches) :
            LET d == cmd.dispatches[i]
                cells == GridCells(d.grid)
            IN /\ op = "matrix_multiply" => d.grid = <<b.cols, a.rows, 1>>
               /\ op = "matrix_transpose" => d.grid = <<a.cols, a.rows, 1>>
               /\ op \in {"matrix_add", "matrix_subtract", "matrix_scalar_multiply"} =>
                     d.grid = <<a.rows * a.cols, 1, 1>>
               /\ "buffer_result" \in DOMAIN buffers =>
                     /\ Cardinality(cells) = Len(buffers["buffer_result"])
                     /\ \A e \in 0..(Len(buffers["buffer_result"]) - 1) :
                           Cardinality({c \in cells :
                               CellIndex(pipeline.kernel,
                                         [j \in 1..Len(d.bound) |-> buffers[d.bound[j]]],
                                         c) = e}) = 1
               /\ (pc = "returned" /\ ret.kind = "Ok") =>
                     Cardinality(cells) = Len(ret.value.data)

C24_Witness ==
    /\ op = "matrix_multiply"
    /\ a.rows = 1 /\ a.cols = 2 /\ b.cols = 2
    /\ Len(cmd.dispatches) = 1
    /\ cmd.dispatches[1].grid = <<2, 1, 1>>
    /\ pc = "returned"
    /\ ret.kind = "Ok"
    /\ Len(ret.value.data) = 2

\* the slot order the operations document, slot 0 first
SlotOrder ==
    [matrix_multiply |-> <<"buffer_a", "buffer_b", "buffer_result",
                           "buffer_m", "buffer_n", "buffer_k">>,
     matrix_add |-> <<"buffer_a", "buffer_b", "buffer_result">>,
     matrix_subtract |-> <<"buffer_a", "buffer_b", "buffer_result">>,
     matrix_transpose |-> <<"buffer_a", "buffer_result", "buffer_rows", "buffer_cols">>,
     matrix_scalar_multiply |-> <<"buffer_a", "buffer_scalar", "buffer_result">>]

ParamBuffers == {"buffer_m", "buffer_n", "buffer_k", "buffer_rows", "buffer_cols",
                 "buffer_scalar"}

\* C25: a matrix operation binds its buffers to the consecutive slots 0, 1, ...
\* each once, before its dispatch and in a fixed order: multiply A, B, result,
\* m, n, k; add and subtract A, B, result; transpose A, result, rows, cols;
\* scalar multiply A, scalar, result.  Every bound buffer exists, and a
\* dimension or scalar parameter is a one-element buffer of its own, an
\* allocation distinct from every other buffer of the call.
C25_BindingOrder ==
    (op \in MatrixOps) =>
        /\ cmd.bindings \in {<<>>, SlotOrder[op]}
        /\ \A i \in 1..Len(cmd.dispatches) :
              LET bound == cmd.dispatches[i].bound
              IN /\ bound = SlotOrder[op]
                 /\ cmd.bindings = bound
                 /\ \A j, k \in 1..Len(bound) : bound[j] = bound[k] => j = k
                 /\ (pc \in {"end_encoding", "commit", "wait"}) =>
                       \A j \in 1..Len(bound) :
                           /\ bound[j] \in DOMAIN buffers
                           /\ bound[j] \in DOMAIN heap.at
                           /\ bound[j] \in ParamBuffers =>
                                 /\ Len(buffers[bound[j]]) = 1
                                 /\ \A k \in 1..Len(bound) :
                                       heap.at[bound[k]] = heap.at[bound[j]] => k = j

C25_Witness ==
    /\ op = "matrix_transpose"
    /\ pc = "wait"
    /\ Len(cmd.dispatches) = 1
    /\ cmd.dispatches[1].bound = <<"buffer_a", "buffer_result", "buffer_rows", "buffer_cols">>
    /\ a.rows = 1 /\ a.cols = 2
    /\ buffers["buffer_rows"] = <<1>>
    /\ buffers["buffer_cols"] = <<2>>
    /\ heap.at["buffer_rows"] # heap.at["buffer_cols"]

\* what thread t's call returns when it runs alone, given the thread limit its
\* pipeline reported, the initial contents of its result buffer and what the
\* device signalled for its command buffer
AloneOutcomes(c, status) ==
    IF ValidationFails(c.op, c.a, c.b) THEN {Err(ValidationError(c.op))}
    ELSE IF c.max_threads = 0 THEN {Err(LoadError(LoadSteps[i])) : i \in 1..Len(LoadSteps)}
    ELSE {OperationOutcome(c.op, c.a, c.b, c.scalar, c.max_threads, c.fill, done) :
             done \in (IF status = "error" THEN BOOLEAN ELSE {TRUE})}

\* C26: two operation calls interleaved on one MetalContext share no
\* in-flight state: each has a command buffer of its own and waits on that
\* one, each holds buffers of its own, every buffer read or written by a call
\* or by the dispatch of its command buffer was created by that call, each
\* call returns what it returns when run alone, and once a call has returned
\* (or unwound) none of the buffers it created is alive.
C26_CallsIndependent ==
    \A t \in Threads :
        LET c == calls[t]
            o == calls[3 - t]
        IN /\ c.cb # 0 =>
                 /\ c.cb \in 1..Len(device.queue)
                 /\ device.queue[c.cb].owner = t
                 /\ c.cb # o.cb
                 /\ \A i \in 1..Len(device.queue[c.cb].bound) :
                       c.pc \in {"returned", "panicked"}
                           \/ device.queue[c.cb].bound[i] \in HeldIds(c)
           /\ c.pc = "read" => device.queue[c.cb].status \in {"completed", "error"}
           /\ HeldIds(c) \cap HeldIds(o) = {}
           /\ \A id \in HeldIds(c) : id \in DOMAIN device.mem /\ device.owner[id] = t
           /\ \A n, m \in DOMAIN c.bufs : c.bufs[n] = c.bufs[m] => n = m
           /\ \A x \in device.touched :
                 x[1] = t => (x[2] \notin DOMAIN device.owner \/ device.owner[x[2]] = t)
                             /\ x[2] \notin HeldIds(o)
           /\ c.pc \in {"returned", "panicked"} =>
                 /\ c.ret \in AloneOutcomes(c, IF c.cb = 0 THEN "none"
                                                ELSE device.queue[c.cb].status)
                 /\ c.bufs = NoCall.bufs
                 /\ \A id \in DOMAIN device.owner : device.owner[id] # t
                 /\ DOMAIN device.mem = DOMAIN device.owner

\* both calls were in flight together: thread 2 created its command buffer
\* first and is still in its call when thread 1 has returned its sum
C26_Witness ==
    /\ calls[1].pc = "returned"
    /\ calls[1].op = "matrix_add"
    /\ calls[1].ret.kind = "Ok"
    /\ calls[1].ret.value.data = <<0, 2>>
    /\ calls[2].op = "matrix_multiply"
    /\ calls[2].pc = "read"
    /\ calls[2].cb = 1
    /\ calls[1].cb = 2
    /\ device.queue[1].status = "completed"
    /\ device.queue[2].status = "completed"

\* C27: with a device that eventually signals every committed command
\* buffer, every operation call eventually returns a result or an error.
C27_CallReturns == (pc = "validate") ~> (pc = "returned")

\* with that device every call ends: it returns, or it unwinds in a panic
C27_CallEnds == (pc = "validate") ~> (pc \in {"returned", "panicked"})

\* a call blocked in wait_until_completed stays there for as long as the
\* device has not signalled: there is no timeout and no cancellation
C27_BlockedWithoutSignal ==
    [][(pc = "wait" /\ cmd.status = "committed" /\ cmd'.status = "committed") => pc' = "wait"]_vars

\* C29: the u32 dimension parameters handed to the kernel equal the operands'
\* dimensions for every usize value: A.rows, B.cols, A.cols at slots 3, 4, 5
\* of a multiply and rows, cols of a transpose; and they agree with the grid
\* of the same dispatch (its width and height for multiply, B.cols x A.rows;
\* for transpose cols x rows).
C29_DimensionParamsExact ==
    (wide.pc = "dispatch") =>
        IF wide.op = "matrix_multiply"
        THEN /\ wide.params = <<wide.rows, wide.other, wide.cols>>
             /\ wide.grid[1] = wide.params[2]
             /\ wide.grid[2] = wide.params[1]
        ELSE /\ wide.params = <<wide.rows, wide.cols>>
             /\ wide.grid[1] = wide.params[2]
             /\ wide.grid[2] = wide.params[1]

\* for dimensions below 2^32 the parameters are the dimensions and agree with
\* the grid
C29_SmallDimensionsExact ==
    /\ (wide.pc = "dispatch" /\ wide.rows.hi = 0 /\ wide.cols.hi = 0 /\ wide.other.hi = 0) =>
          /\ wide.params = IF wide.op = "matrix_multiply"
                            THEN <<wide.rows, wide.other, wide.cols>>
                            ELSE <<wide.rows, wide.cols>>
          /\ wide.grid[1] = wide.params[2]
          /\ wide.grid[2] = wide.params[1]
    /\ \A i \in 1..Len(cmd.dispatches) :
          /\ (op = "matrix_multiply" /\ "buffer_m" \in DOMAIN buffers) =>
                /\ buffers["buffer_m"] = <<a.rows>>
                /\ buffers["buffer_n"] = <<b.cols>>
                /\ buffers["buffer_k"] = <<a.cols>>
                /\ cmd.dispatches[i].grid = <<b.cols, a.rows, 1>>
          /\ (op = "matrix_transpose" /\ "buffer_rows" \in DOMAIN buffers) =>
                /\ buffers["buffer_rows"] = <<a.rows>>
                /\ buffers["buffer_cols"] = <<a.cols>>
                /\ cmd.dispatches[i].grid = <<a.cols, a.rows, 1>>

(* ===================== claims on the Matrix value type ================= *)
\* C5: in every state reached by the constructors new, with_data, vector,
\* identity, row and column, by set calls and by the operations, the host's
\* Matrix holds exactly rows * cols elements.
C5_DataLenIsRowsTimesCols ==
    Len(mat.data) = mat.rows * mat.cols

C5_Witness ==
    /\ mret.method = "matrix_transpose"
    /\ mret.kind = "Ok"
    /\ mat.rows = 1
    /\ mat.cols = 2
    /\ mat.data = <<0, 1>>

\* C6: Matrix::with_data(rows, cols, data) returns an error, and no matrix,
\* whenever Len(data) # rows * cols; otherwise it returns the Matrix with
\* exactly these rows, cols and data, in the same order.
C6_WithDataChecksLength ==
    [][mret'.method = "with_data" =>
          \A rc \in Shapes : \A d \in DataArgs(rc[1] * rc[2]) :
             WithDataCall(rc[1], rc[2], d) =>
                IF Len(d) # rc[1] * rc[2]
                THEN mret'.kind = "Err" /\ mat' = mat
                ELSE /\ mret'.kind = "Ok"
                     /\ mat'.rows = rc[1] /\ mat'.cols = rc[2] /\ mat'.data = d]_vars

C6_Witness ==
    /\ mret.method = "with_data"
    /\ mret.kind = "Err"
    /\ mat.rows = 2 /\ mat.cols = 2


\* C28: get(row, col) and set(row, col, value) panic whenever row >= rows or
\* col >= cols; otherwise get returns and set writes exactly the element at
\* flat offset row * cols + col, and set leaves every other element, rows and
\* cols as they were.
C28_GetSetBoundsChecked ==
    [][/\ \A r \in Dims, c \in Dims :
             GetCall(r, c) =>
                 IF r >= mat.rows \/ c >= mat.cols
                 THEN mret'.kind = "Panic"
                 ELSE mret'.kind = "Ok" /\ mret'.value = mat.data[r * mat.cols + c + 1]
       /\ \A r \in Dims, c \in Dims, v \in Values :
             SetCall(r, c, v) =>
                 IF r >= mat.rows \/ c >= mat.cols
                 THEN mret'.kind = "Panic" /\ mat' = mat
                 ELSE /\ mret'.kind = "Ok"
                      /\ mat'.rows = mat.rows /\ mat'.cols = mat.cols
                      /\ mat'.data = [mat.data EXCEPT ![r * mat.cols + c + 1] = v]]_vars

\* what get and set do check: the flat offset against the length of data
C28_FlatOffsetChecked ==
    [][/\ \A r \in Dims, c \in Dims :
             GetCall(r, c) =>
                 IF r * mat.cols + c >= Len(mat.data)
                 THEN mret'.kind = "Panic"
                 ELSE mret'.kind = "Ok" /\ mret'.value = mat.data[r * mat.cols + c + 1]
       /\ \A r \in Dims, c \in Dims, v \in Values :
             SetCall(r, c, v) =>
                 IF r * mat.cols + c >= Len(mat.data)
                 THEN mret'.kind = "Panic" /\ mat' = mat
                 ELSE /\ mret'.kind = "Ok"
                      /\ mat'.rows = mat.rows /\ mat'.cols = mat.cols
                      /\ mat'.data = [mat.data EXCEPT ![r * mat.cols + c + 1] = v]]_vars

====
